---- MODULE Spec2Model ----
(***************************************************************************)
(* Model of the clinical NLP workshop notebooks.                           *)
(*                                                                         *)
(*   SpecTable : the "Convert to structured data" cells and the three      *)
(*               analysis questions of nlp-05-clinical-nlp-workshop.       *)
(*   SpecNLP   : loading a pipeline, adding target rules and one call      *)
(*               nlp(text), component by component, up to the DataFrame.   *)
(*                                                                         *)
(* Cells whose source holds the exercise placeholder ____ are modelled     *)
(* with the placeholder filled in as the comment of the same cell says.    *)
(***************************************************************************)
EXTENDS Naturals, Integers, Sequences, FiniteSets, TLC

VARIABLES
    \* ---- structured conversion and analysis (nlp-05, part III)
    docs,          \* list of processed Docs; a Doc is [ents |-> <<Span, ...>>]
    ents_data,     \* list of dictionaries built by the ent_to_dict loop
    ents_df,       \* pd.DataFrame(ents_data)
    label_counts,  \* Question 1 value_counts()
    label_top,     \* Question 1 head(10)
    pmh,           \* Question 2 variable (DataFrame, then Series)
    pmh_top,       \* Question 2 head(10)
    fh,            \* Question 3 variable (DataFrame, then Series)
    fh_top,        \* Question 3 head(10)
    tie,           \* order value_counts leaves equal counts in
    pc,            \* the notebook cell that runs next
    \* ---- pipeline (nlp-01, nlp-05 parts I-III, part_000)
    nlp,           \* the loaded Language object
    target_rules,  \* rules added to target_matcher
    text,          \* the text handed to nlp(text)
    doc,           \* the Doc being built by the running call
    ran,           \* components that have finished in the running call
    busy           \* the call's position: "idle", "running", "returned"

tableVars == <<docs, ents_data, ents_df, label_counts, label_top, pmh, pmh_top,
               fh, fh_top, tie, pc>>
nlpVars == <<nlp, target_rules, text, doc, ran, busy>>
vars == <<docs, ents_data, ents_df, label_counts, label_top, pmh, pmh_top,
          fh, fh_top, tie, pc, nlp, target_rules, text, doc, ran, busy>>

\* ------------------------------------------------------------------ bounds
MaxDocs == 2
MaxEnts == 3
MaxDistinct == 11
MaxShape == 2
MaxTextLen == 3

\* ------------------------------------------------------- program constants
HeadN == 10

None == "None"
NotRun == <<>>

\* ------------------------------------------------------------ small helpers
Range(s) == {s[i] : i \in DOMAIN s}

Min(a, b) == IF a <= b THEN a ELSE b

SeqsUpTo(S, n) == UNION {[1..k -> S] : k \in 0..n}

RECURSIVE SumSeq(_)
SumSeq(s) == IF s = <<>> THEN 0 ELSE Head(s) + SumSeq(Tail(s))

\* str.lower() on one character of the model's alphabet
LowerChar(c) == CASE c = "A" -> "a" [] c = "B" -> "b" [] OTHER -> c

\* Span.lower_ : the span's text, lower-cased
lower_(ent) == [i \in DOMAIN ent.text |-> LowerChar(ent.text[i])]

\* ------------------------------------------------------------ ent_to_dict
ent_to_dict_raw_text(ent) ==
    [text |-> ent.text, label |-> ent.label_, sent |-> ent.sent.text,
     is_negated |-> ent.ext.is_negated, is_historical |-> ent.ext.is_historical,
     is_uncertain |-> ent.ext.is_uncertain, is_family |-> ent.ext.is_family,
     is_hypothetical |-> ent.ext.is_hypothetical,
     section_title |-> ent.ext.section_title]

ent_to_dict(ent) ==
    [text |-> lower_(ent), label |-> ent.label_, sent |-> ent.sent.text,
     is_negated |-> ent.ext.is_negated, is_historical |-> ent.ext.is_historical,
     is_uncertain |-> ent.ext.is_uncertain, is_family |-> ent.ext.is_family,
     is_hypothetical |-> ent.ext.is_hypothetical,
     section_title |-> ent.ext.section_title]

\* ----------------------------------------------------- the ents_data loop
\* for ent in doc.ents: ents_data.append(ent_to_dict(ent))
RECURSIVE AppendEnts(_, _)
AppendEnts(acc, ents) ==
    IF ents = <<>> THEN acc
    ELSE AppendEnts(Append(acc, ent_to_dict(Head(ents))), Tail(ents))

\* for doc in docs: <inner loop>
RECURSIVE LoopDocs(_, _)
LoopDocs(acc, ds) ==
    IF ds = <<>> THEN acc
    ELSE LoopDocs(AppendEnts(acc, Head(ds).ents), Tail(ds))

\* a loop that leaves the inner loop one entity early
RECURSIVE LoopDocsSkipLast(_, _)
LoopDocsSkipLast(acc, ds) ==
    IF ds = <<>> THEN acc
    ELSE LoopDocsSkipLast(
             AppendEnts(acc, IF Head(ds).ents = <<>> THEN <<>>
                             ELSE SubSeq(Head(ds).ents, 1, Len(Head(ds).ents) - 1)),
             Tail(ds))

FlattenSkipLast(ds) == LoopDocsSkipLast(<<>>, ds)

\* ents_data = []; for doc in docs: for ent in doc.ents: ...
Flatten(ds) == LoopDocs(<<>>, ds)

\* ---------------------------------------------------------- pandas pieces
\* pd.DataFrame(list of dicts): RangeIndex 0..n-1, columns = the dicts' keys
DataFrame(data) ==
    [columns |-> UNION {DOMAIN data[i] : i \in DOMAIN data},
     rows |-> [i \in DOMAIN data |-> [index |-> i - 1, d |-> data[i]]]]

\* the rows i, in order, whose mask[i] is True
RECURSIVE Kept(_, _, _)
Kept(rows, mask, i) ==
    IF i > Len(rows) THEN <<>>
    ELSE (IF mask[i] THEN <<rows[i]>> ELSE <<>>) \o Kept(rows, mask, i + 1)

\* df[boolean Series]: the rows whose mask is True, index labels kept
BoolIndex(df, mask) == [columns |-> df.columns, rows |-> Kept(df.rows, mask, 1)]

\* df[name]: one column as a list of values
Column(df, name) == [i \in DOMAIN df.rows |-> df.rows[i].d[name]]

TieOrders == {"first_seen", "last_seen"}

CountOf(col, v) == Cardinality({i \in DOMAIN col : col[i] = v})

FirstSeen(col, v) == CHOOSE i \in DOMAIN col :
                        col[i] = v /\ \A j \in DOMAIN col : col[j] = v => i <= j

\* a comes before b in the sorted result
Before(col, t, a, b) ==
    \/ CountOf(col, a) > CountOf(col, b)
    \/ /\ CountOf(col, a) = CountOf(col, b)
       /\ IF t = "first_seen" THEN FirstSeen(col, a) < FirstSeen(col, b)
                              ELSE FirstSeen(col, a) > FirstSeen(col, b)

\* counts left in order of first appearance (no sort)
value_counts_unsorted(col, t) ==
    LET D == Range(col)
        Pos(v) == Cardinality({w \in D : FirstSeen(col, w) < FirstSeen(col, v)}) + 1
    IN  [k \in 1..Cardinality(D) |->
            LET v == CHOOSE w \in D : Pos(w) = k
            IN  [value |-> v, count |-> CountOf(col, v)]]

\* Series.value_counts(): one entry per distinct value, largest count first
value_counts(col, t) ==
    LET D == Range(col)
        Pos(v) == Cardinality({w \in D : Before(col, t, w, v)}) + 1
    IN  [k \in 1..Cardinality(D) |->
            LET v == CHOOSE w \in D : Pos(w) = k
            IN  [value |-> v, count |-> CountOf(col, v)]]

\* Series.head(n)
head(s, n) == SubSeq(s, 1, Min(n, Len(s)))

\* ------------------------------------------------------------ filter masks
\* df["label"] == "PROBLEM"
ProblemMask(df) == [i \in DOMAIN df.rows |-> df.rows[i].d.label = "PROBLEM"]

PmhMaskSpaces(df) ==
    [i \in DOMAIN df.rows |-> df.rows[i].d.section_title = "past medical history"]

\* df["section_title"] == "past_medical_history"
PmhMask(df) ==
    [i \in DOMAIN df.rows |-> df.rows[i].d.section_title = "past_medical_history"]

FamilyMaskAnd(df) ==
    [i \in DOMAIN df.rows |->
        (df.rows[i].d.is_family = TRUE) /\ (df.rows[i].d.section_title = "family_history")]

\* (df["is_family"] == True) | (df["section_title"] == "family_history")
FamilyMask(df) ==
    [i \in DOMAIN df.rows |->
        (df.rows[i].d.is_family = TRUE) \/ (df.rows[i].d.section_title = "family_history")]

\* ------------------------------------------------- inputs of SpecTable
\* the extension attributes ent._ of a Span, as the pipeline left them
Ext(neg, hist, unc, fam, hyp, sec) ==
    [is_negated |-> neg, is_historical |-> hist, is_uncertain |-> unc,
     is_family |-> fam, is_hypothetical |-> hyp, section_title |-> sec]

MkSpan(t, l, e) == [text |-> t, label_ |-> l, sent |-> [text |-> <<"n", "o", " ">> \o t], ext |-> e]

\* entities of a processed document, one per case of the three questions
SpanPool ==
    << MkSpan(<<"A", "b">>, "PROBLEM", Ext(FALSE, FALSE, FALSE, TRUE, FALSE, "family_history")),
       MkSpan(<<"b">>, "PROBLEM", Ext(TRUE, FALSE, FALSE, TRUE, FALSE, None)),
       MkSpan(<<"a", "b">>, "PROBLEM", Ext(FALSE, TRUE, FALSE, FALSE, FALSE, "family_history")),
       MkSpan(<<"B">>, "PROBLEM", Ext(FALSE, TRUE, TRUE, FALSE, FALSE, "past_medical_history")),
       MkSpan(<<"a">>, "TEST", Ext(FALSE, FALSE, FALSE, TRUE, TRUE, "past_medical_history")) >>

\* docs cut out of one list of entities: doc k holds f[c[k-1]+1 .. c[k]]
CutDocs(f, c) ==
    [k \in DOMAIN c |->
        [ents |-> SubSeq(f, (IF k = 1 THEN 0 ELSE c[k - 1]) + 1, c[k])]]

SmallDocs ==
    { CutDocs([i \in DOMAIN f |-> SpanPool[f[i]]], c) :
        <<f, c>> \in
          { fc \in SeqsUpTo(DOMAIN SpanPool, MaxEnts) \X SeqsUpTo(0..MaxEnts, MaxDocs) :
              /\ \A k \in DOMAIN fc[2] : fc[2][k] <= Len(fc[1])
              /\ \A k \in DOMAIN fc[2] : k > 1 => fc[2][k - 1] <= fc[2][k]
              /\ (fc[2] = <<>> => fc[1] = <<>>)
              /\ (fc[2] # <<>> => fc[2][Len(fc[2])] = Len(fc[1])) } }

\* k-th of many distinct problems in the past medical history of a relative
WideSpan(k) ==
    MkSpan([i \in 1..k |-> IF i = 1 /\ k % 2 = 1 THEN "A" ELSE "a"], "PROBLEM",
           Ext(FALSE, TRUE, FALSE, TRUE, FALSE, "past_medical_history"))

RECURSIVE WideEnts(_, _, _)
WideEnts(n, s, k) ==
    IF k > n THEN <<>>
    ELSE [i \in 1..(1 + (k % s)) |-> WideSpan(k)] \o WideEnts(n, s, k + 1)

WideDocs == { <<[ents |-> WideEnts(n, s, 1)]>> : <<n, s>> \in (0..MaxDistinct) \X (1..MaxShape) }

\* ------------------------------------------------------------ the cells
CellOrder == <<"start", "docs", "ents_data", "ents_df", "q1_counts", "q1_head",
               "q2_label", "q2_section", "q2_counts", "q2_head",
               "q3_label", "q3_family", "q3_counts", "q3_head">>

CellNo(c) == CHOOSE i \in DOMAIN CellOrder : CellOrder[i] = c

\* cell c has run (and no cell has raised)
HasRun(c) == pc # "error" /\ CellNo(pc) >= CellNo(c)

ExtKeys == {"is_negated", "is_historical", "is_uncertain", "is_family",
            "is_hypothetical", "section_title"}

AllAssigned(ds) ==
    \A i \in DOMAIN ds : \A j \in DOMAIN ds[i].ents : ExtKeys \subseteq DOMAIN ds[i].ents[j].ext

\* ents_data = []; for doc in docs: for ent in doc.ents: ents_data.append(...)
\* (reading an extension attribute nothing assigned raises AttributeError)
ConvertCell ==
    /\ pc = "docs"
    /\ IF AllAssigned(docs)
       THEN ents_data' = Flatten(docs) /\ pc' = "ents_data"
       ELSE ents_data' = ents_data /\ pc' = "error"
    /\ UNCHANGED <<docs, ents_df, label_counts, label_top, pmh, pmh_top, fh, fh_top, tie>>
    /\ UNCHANGED nlpVars

\* ents_df = pd.DataFrame(ents_data)
DataFrameCell ==
    /\ pc = "ents_data"
    /\ ents_df' = DataFrame(ents_data)
    /\ pc' = "ents_df"
    /\ UNCHANGED <<docs, ents_data, label_counts, label_top, pmh, pmh_top, fh, fh_top, tie>>
    /\ UNCHANGED nlpVars

\* ents_df["label"] on a frame built from no dictionaries: KeyError
KeyErrorCell ==
    /\ pc = "ents_df"
    /\ "label" \notin ents_df.columns
    /\ pc' = "error"
    /\ UNCHANGED <<docs, ents_data, ents_df, label_counts, label_top, pmh, pmh_top,
                   fh, fh_top, tie>>
    /\ UNCHANGED nlpVars

\* label_counts = ents_df["label"].value_counts()
Q1Counts ==
    /\ pc = "ents_df"
    /\ "label" \in ents_df.columns
    /\ label_counts' = value_counts(Column(ents_df, "label"), tie)
    /\ pc' = "q1_counts"
    /\ UNCHANGED <<docs, ents_data, ents_df, label_top, pmh, pmh_top, fh, fh_top, tie>>
    /\ UNCHANGED nlpVars

\* label_counts.head(10).plot.bar()
Q1Head ==
    /\ pc = "q1_counts"
    /\ label_top' = head(label_counts, HeadN)
    /\ pc' = "q1_head"
    /\ UNCHANGED <<docs, ents_data, ents_df, label_counts, pmh, pmh_top, fh, fh_top, tie>>
    /\ UNCHANGED nlpVars

\* pmh = ents_df[ents_df["label"] == "PROBLEM"]
Q2FilterLabel ==
    /\ pc = "q1_head"
    /\ pmh' = BoolIndex(ents_df, ProblemMask(ents_df))
    /\ pc' = "q2_label"
    /\ UNCHANGED <<docs, ents_data, ents_df, label_counts, label_top, pmh_top, fh, fh_top, tie>>
    /\ UNCHANGED nlpVars

\* pmh = pmh[pmh["section_title"] == "past_medical_history"]
Q2FilterSection ==
    /\ pc = "q2_label"
    /\ pmh' = BoolIndex(pmh, PmhMask(pmh))
    /\ pc' = "q2_section"
    /\ UNCHANGED <<docs, ents_data, ents_df, label_counts, label_top, pmh_top, fh, fh_top, tie>>
    /\ UNCHANGED nlpVars

\* pmh = pmh["text"].value_counts()
Q2Counts ==
    /\ pc = "q2_section"
    /\ pmh' = value_counts(Column(pmh, "text"), tie)
    /\ pc' = "q2_counts"
    /\ UNCHANGED <<docs, ents_data, ents_df, label_counts, label_top, pmh_top, fh, fh_top, tie>>
    /\ UNCHANGED nlpVars

\* pmh.head(10)
Q2Head ==
    /\ pc = "q2_counts"
    /\ pmh_top' = head(pmh, HeadN)
    /\ pc' = "q2_head"
    /\ UNCHANGED <<docs, ents_data, ents_df, label_counts, label_top, pmh, fh, fh_top, tie>>
    /\ UNCHANGED nlpVars

\* fh = ents_df[ents_df["label"] == "PROBLEM"]
Q3FilterLabel ==
    /\ pc = "q2_head"
    /\ fh' = BoolIndex(ents_df, ProblemMask(ents_df))
    /\ pc' = "q3_label"
    /\ UNCHANGED <<docs, ents_data, ents_df, label_counts, label_top, pmh, pmh_top, fh_top, tie>>
    /\ UNCHANGED nlpVars

\* fh = fh[(fh["is_family"] == True) | (fh["section_title"] == "family_history")]
Q3FilterFamily ==
    /\ pc = "q3_label"
    /\ fh' = BoolIndex(fh, FamilyMask(fh))
    /\ pc' = "q3_family"
    /\ UNCHANGED <<docs, ents_data, ents_df, label_counts, label_top, pmh, pmh_top, fh_top, tie>>
    /\ UNCHANGED nlpVars

\* fh = fh["text"].value_counts()
Q3Counts ==
    /\ pc = "q3_family"
    /\ fh' = value_counts(Column(fh, "text"), tie)
    /\ pc' = "q3_counts"
    /\ UNCHANGED <<docs, ents_data, ents_df, label_counts, label_top, pmh, pmh_top, fh_top, tie>>
    /\ UNCHANGED nlpVars

\* ax = fh.head(10).plot.barh()
Q3Head ==
    /\ pc = "q3_counts"
    /\ fh_top' = head(fh, HeadN)
    /\ pc' = "q3_head"
    /\ UNCHANGED <<docs, ents_data, ents_df, label_counts, label_top, pmh, pmh_top, fh, tie>>
    /\ UNCHANGED nlpVars

NlpIdle ==
    /\ nlp = [model |-> "none", pipe_names |-> <<>>]
    /\ target_rules = {}
    /\ text = <<>>
    /\ doc = NotRun
    /\ ran = <<>>
    /\ busy = "idle"

TableNotRun ==
    /\ ents_data = NotRun
    /\ ents_df = NotRun
    /\ label_counts = NotRun
    /\ label_top = NotRun
    /\ pmh = NotRun
    /\ pmh_top = NotRun
    /\ fh = NotRun
    /\ fh_top = NotRun

\* the notebook after docs = list(nlp.pipe(df["text"]))
InitTable ==
    /\ docs \in SmallDocs \cup WideDocs
    /\ tie \in TieOrders
    /\ pc = "docs"
    /\ TableNotRun
    /\ NlpIdle

NextTable ==
    \/ ConvertCell
    \/ DataFrameCell
    \/ KeyErrorCell
    \/ Q1Counts
    \/ Q1Head
    \/ Q2FilterLabel
    \/ Q2FilterSection
    \/ Q2Counts
    \/ Q2Head
    \/ Q3FilterLabel
    \/ Q3FilterFamily
    \/ Q3Counts
    \/ Q3Head

SpecTable == InitTable /\ [][NextTable]_vars

\* ------------------------------------------------------------ the pipeline
Alphabet == {"a", "B", " "}

Texts == SeqsUpTo(Alphabet, MaxTextLen)

\* the tokenizer: the text split at white space
RECURSIVE Tokens(_, _, _)
Tokens(t, cur, i) ==
    IF i > Len(t) THEN (IF cur = <<>> THEN <<>> ELSE <<cur>>)
    ELSE IF t[i] = " "
         THEN (IF cur = <<>> THEN <<>> ELSE <<cur>>) \o Tokens(t, <<>>, i + 1)
         ELSE Tokens(t, Append(cur, t[i]), i + 1)

Tokenize(t) == Tokens(t, <<>>, 1)

LowerToken(tok) == [i \in DOMAIN tok |-> LowerChar(tok[i])]

\* text of the tokens s..e of a Doc
RECURSIVE SpanText(_, _, _)
SpanText(toks, s, e) ==
    IF s > e THEN <<>>
    ELSE IF s = e THEN toks[s]
    ELSE toks[s] \o <<" ">> \o SpanText(toks, s + 1, e)

\* Span(doc, start, end, label): no extension attribute assigned yet
NewSpan(d, s, e, l) ==
    [start |-> s, end |-> e, text |-> SpanText(d.tokens, s, e), label_ |-> l,
     sent |-> [text |-> d.text], ext |-> <<>>]

Overlap(x, y) == x.start <= y.end /\ y.start <= x.end

Disjoint(S) == \A x \in S : \A y \in S : x # y => ~Overlap(x, y)

\* doc.ents is kept in order of position
SortSpans(S) ==
    [k \in 1..Cardinality(S) |->
        CHOOSE x \in S : Cardinality({y \in S : y.start < x.start}) = k - 1]

\* pipe names of spacy.load("en_core_web_sm"): tagger, parser, ner
SpacyPipeNames == <<"tagger", "parser", "ner">>

MedspacyPipeNamesNer ==
    <<"tagger", "parser", "ner", "target_matcher", "sectionizer", "context", "postprocessor">>

\* nlp.pipe_names recorded after nlp = medspacy.load()
MedspacyPipeNames ==
    <<"tagger", "parser", "target_matcher", "sectionizer", "context", "postprocessor">>

ModelPipeNamesNerLast ==
    <<"tagger", "parser", "target_matcher", "sectionizer", "context", "postprocessor", "ner">>

\* medspacy.load("en_info_3700_i2b2_2012"): the model's own steps, ner among
\* them, then the components medSpaCy adds
ModelPipeNames ==
    <<"tagger", "parser", "ner", "target_matcher", "sectionizer", "context", "postprocessor">>

NerLabelsUnrestricted(m) ==
    IF m = "en_info_3700_i2b2_2012"
    THEN {"PROBLEM", "TEST", "TREATMENT", "OCCURRENCE"}
    ELSE {"GPE", "ORG"}

\* ner.labels of the loaded model
NerLabels(m) ==
    IF m = "en_info_3700_i2b2_2012"
    THEN {"PROBLEM", "TEST", "TREATMENT"}
    ELSE {"GPE", "ORG"}

\* TargetRule(literal, category); a literal is a list of lower-case tokens
RulePool ==
    { [literal |-> << <<"a">> >>, category |-> "SSI"],
      [literal |-> << <<"b">> >>, category |-> "BODY_LOC"] }

\* rule r matches the tokens s..e of the Doc
RuleMatches(d, r, s, e) ==
    /\ e - s + 1 = Len(r.literal)
    /\ \A k \in 1..Len(r.literal) : LowerToken(d.tokens[s + k - 1]) = r.literal[k]

TargetMatchesAnyToken(d, rules) ==
    { NewSpan(d, s, s, "SSI") : s \in DOMAIN d.tokens }

\* the spans the target rules match, each labelled with its rule's category
TargetMatches(d, rules) ==
    { NewSpan(d, m[1], m[2], m[3].category) :
        m \in { x \in (DOMAIN d.tokens) \X (DOMAIN d.tokens) \X rules :
                  x[1] <= x[2] /\ RuleMatches(d, x[3], x[1], x[2]) } }

SectionTitles == {None, "past_medical_history", "family_history"}

\* modifier assignments ConText can leave on an entity
ContextOutcomes ==
    { [is_negated |-> FALSE, is_historical |-> FALSE, is_uncertain |-> FALSE,
       is_family |-> FALSE, is_hypothetical |-> FALSE],
      [is_negated |-> TRUE, is_historical |-> FALSE, is_uncertain |-> FALSE,
       is_family |-> FALSE, is_hypothetical |-> FALSE],
      [is_negated |-> FALSE, is_historical |-> TRUE, is_uncertain |-> TRUE,
       is_family |-> TRUE, is_hypothetical |-> TRUE] }

NextPipeSkipFirst ==
    IF ran = <<>> THEN "tokenizer"
    ELSE IF Len(ran) < Len(nlp.pipe_names) THEN nlp.pipe_names[Len(ran) + 1]
    ELSE "return"

\* the step of the running call that is due: the tokenizer, then the pipeline's
\* components one after another, then the return of the Doc
NextPipe ==
    IF ran = <<>> THEN "tokenizer"
    ELSE IF Len(ran) <= Len(nlp.pipe_names) THEN nlp.pipe_names[Len(ran)]
    ELSE "return"

Due(name) == busy = "running" /\ NextPipe = name

\* nlp = spacy.load("en_core_web_sm")
SpacyLoad ==
    /\ nlp.model = "none"
    /\ nlp' = [model |-> "en_core_web_sm", pipe_names |-> SpacyPipeNames]
    /\ UNCHANGED <<target_rules, text, doc, ran, busy>>
    /\ UNCHANGED tableVars

\* nlp = medspacy.load()
MedspacyLoad ==
    /\ nlp.model = "none"
    /\ nlp' = [model |-> "default", pipe_names |-> MedspacyPipeNames]
    /\ UNCHANGED <<target_rules, text, doc, ran, busy>>
    /\ UNCHANGED tableVars

\* nlp = medspacy.load("en_info_3700_i2b2_2012")
MedspacyLoadModel ==
    /\ nlp.model = "none"
    /\ nlp' = [model |-> "en_info_3700_i2b2_2012", pipe_names |-> ModelPipeNames]
    /\ UNCHANGED <<target_rules, text, doc, ran, busy>>
    /\ UNCHANGED tableVars

\* target_matcher = nlp.get_pipe("target_matcher"); target_matcher.add(target_rules)
AddRules ==
    /\ busy = "idle"
    /\ "target_matcher" \in Range(nlp.pipe_names)
    /\ \E r \in RulePool \ target_rules : target_rules' = target_rules \cup {r}
    /\ UNCHANGED <<nlp, text, doc, ran, busy>>
    /\ UNCHANGED tableVars

\* doc = nlp(text) / docs = list(nlp.pipe(texts)) on one text: the call starts
Call ==
    /\ busy = "idle"
    /\ nlp.model # "none"
    /\ \E t \in Texts : text' = t
    /\ busy' = "running"
    /\ UNCHANGED <<nlp, target_rules, doc, ran>>
    /\ UNCHANGED tableVars

\* the text is split into tokens by the tokenizer
Tokenizer ==
    /\ Due("tokenizer")
    /\ doc' = [text |-> text, tokens |-> Tokenize(text), is_tagged |-> FALSE,
               is_parsed |-> FALSE, ents |-> <<>>]
    /\ ran' = Append(ran, "tokenizer")
    /\ UNCHANGED <<nlp, target_rules, text, busy>>
    /\ UNCHANGED tableVars

\* POS tags are assigned by the tagger
Tagger ==
    /\ Due("tagger")
    /\ doc' = [doc EXCEPT !.is_tagged = TRUE]
    /\ ran' = Append(ran, "tagger")
    /\ UNCHANGED <<nlp, target_rules, text, busy>>
    /\ UNCHANGED tableVars

\* a dependency parse is generated by the parser
Parser ==
    /\ Due("parser")
    /\ doc' = [doc EXCEPT !.is_parsed = TRUE]
    /\ ran' = Append(ran, "parser")
    /\ UNCHANGED <<nlp, target_rules, text, busy>>
    /\ UNCHANGED tableVars

\* entities are extracted by the ner: any spans that do not overlap, each with
\* one of the model's labels
Ner ==
    /\ Due("ner")
    /\ \E S \in SUBSET { NewSpan(doc, x[1], x[2], x[3]) :
                           x \in { y \in (DOMAIN doc.tokens) \X (DOMAIN doc.tokens)
                                          \X NerLabels(nlp.model) : y[1] <= y[2] } } :
          /\ Disjoint(S)
          /\ doc' = [doc EXCEPT !.ents = SortSpans(S)]
    /\ ran' = Append(ran, "ner")
    /\ UNCHANGED <<nlp, target_rules, text, busy>>
    /\ UNCHANGED tableVars

\* target_matcher: adds the spans its rules match to doc.ents; of spans that
\* overlap, an entity already there stays and one match is kept
TargetMatcher ==
    /\ Due("target_matcher")
    /\ LET E == Range(doc.ents)
           M == TargetMatches(doc, target_rules)
       IN  \E S \in SUBSET M :
              /\ Disjoint(E \cup S)
              /\ \A m \in M \ S : ~Disjoint(E \cup S \cup {m})
              /\ doc' = [doc EXCEPT !.ents = SortSpans(E \cup S)]
    /\ ran' = Append(ran, "target_matcher")
    /\ UNCHANGED <<nlp, target_rules, text, busy>>
    /\ UNCHANGED tableVars

\* sectionizer: every entity is given the title of its section, or None
Sectionizer ==
    /\ Due("sectionizer")
    /\ \E f \in [DOMAIN doc.ents -> SectionTitles] :
          doc' = [doc EXCEPT !.ents =
                    [k \in DOMAIN doc.ents |->
                        [doc.ents[k] EXCEPT !.ext = ("section_title" :> f[k]) @@ @]]]
    /\ ran' = Append(ran, "sectionizer")
    /\ UNCHANGED <<nlp, target_rules, text, busy>>
    /\ UNCHANGED tableVars

\* context: every entity is given its five modifier flags
Context ==
    /\ Due("context")
    /\ \E g \in [DOMAIN doc.ents -> ContextOutcomes] :
          doc' = [doc EXCEPT !.ents =
                    [k \in DOMAIN doc.ents |->
                        [doc.ents[k] EXCEPT !.ext = g[k] @@ @]]]
    /\ ran' = Append(ran, "context")
    /\ UNCHANGED <<nlp, target_rules, text, busy>>
    /\ UNCHANGED tableVars

\* postprocessor: no postprocessing rule is added, the Doc passes unchanged
Postprocessor ==
    /\ Due("postprocessor")
    /\ ran' = Append(ran, "postprocessor")
    /\ UNCHANGED <<nlp, target_rules, text, doc, busy>>
    /\ UNCHANGED tableVars

\* a Doc object is returned; in the workshop notebook it becomes docs
Return ==
    /\ Due("return")
    /\ busy' = "returned"
    /\ IF nlp.model = "en_core_web_sm"
       THEN UNCHANGED <<docs, pc>>
       ELSE docs' = <<[ents |-> doc.ents]>> /\ pc' = "docs"
    /\ UNCHANGED <<nlp, target_rules, text, doc, ran>>
    /\ UNCHANGED <<ents_data, ents_df, label_counts, label_top, pmh, pmh_top, fh, fh_top, tie>>

InitNLP ==
    /\ NlpIdle
    /\ TableNotRun
    /\ docs = NotRun
    /\ tie = "first_seen"
    /\ pc = "start"

NextNLP ==
    \/ SpacyLoad
    \/ MedspacyLoad
    \/ MedspacyLoadModel
    \/ AddRules
    \/ Call
    \/ Tokenizer
    \/ Tagger
    \/ Parser
    \/ Ner
    \/ TargetMatcher
    \/ Sectionizer
    \/ Context
    \/ Postprocessor
    \/ Return
    \/ ConvertCell
    \/ DataFrameCell

SpecNLP == InitNLP /\ [][NextNLP]_vars

\* ------------------------------------------------- properties of SpecTable
\* number of entities in the docs before doc i
RECURSIVE Offset(_, _)
Offset(ds, i) == IF i <= 1 THEN 0 ELSE Offset(ds, i - 1) + Len(ds[i - 1].ents)

NineKeys == {"text", "label", "sent", "is_negated", "is_historical", "is_uncertain",
             "is_family", "is_hypothetical", "section_title"}

\* C1: once the loop over docs and doc.ents has finished, ents_data has one row
\* per entity of every doc (its length is the sum of len(doc.ents)), and the row
\* of the j-th entity of the i-th doc stands at position (entities of the docs
\* before i) + j: document order, then entity order, nothing dropped or repeated.
C1_Flattening ==
    HasRun("ents_data") =>
        /\ Len(ents_data) = SumSeq([i \in DOMAIN docs |-> Len(docs[i].ents)])
        /\ \A i \in DOMAIN docs : \A j \in DOMAIN docs[i].ents :
              /\ Offset(docs, i) + j \in DOMAIN ents_data
              /\ ents_data[Offset(docs, i) + j] = ent_to_dict(docs[i].ents[j])

C1_Witness ==
    /\ HasRun("ents_data")
    /\ Len(docs) = 2
    /\ Len(docs[1].ents) >= 1
    /\ Len(docs[2].ents) >= 2
    /\ docs[2].ents[1] # docs[2].ents[2]

\* C2: every row built by ent_to_dict has exactly the nine keys; text is the
\* entity's text lower-cased, label its label, sent the text of its sentence,
\* and the five context flags and the section title are the entity's own values.
C2_EntToDict ==
    HasRun("ents_data") =>
        \A i \in DOMAIN docs : \A j \in DOMAIN docs[i].ents :
            LET e == docs[i].ents[j]
                d == ents_data[Offset(docs, i) + j]
            IN  /\ DOMAIN d = NineKeys
                /\ Len(d.text) = Len(e.text)
                /\ \A k \in DOMAIN e.text :
                      /\ d.text[k] \notin {"A", "B"}
                      /\ (e.text[k] = "A" => d.text[k] = "a")
                      /\ (e.text[k] = "B" => d.text[k] = "b")
                      /\ (e.text[k] \notin {"A", "B"} => d.text[k] = e.text[k])
                /\ d.label = e.label_
                /\ d.sent = e.sent.text
                /\ d.is_negated = e.ext.is_negated
                /\ d.is_historical = e.ext.is_historical
                /\ d.is_uncertain = e.ext.is_uncertain
                /\ d.is_family = e.ext.is_family
                /\ d.is_hypothetical = e.ext.is_hypothetical
                /\ d.section_title = e.ext.section_title

C2_Witness ==
    /\ HasRun("ents_data")
    /\ \E i \in DOMAIN docs : \E j \in DOMAIN docs[i].ents :
          /\ ents_data[Offset(docs, i) + j].text # docs[i].ents[j].text
          /\ docs[i].ents[j].ext.is_family = TRUE
          /\ docs[i].ents[j].ext.section_title # None

\* index labels of the rows of a frame
IndexSet(df) == {df.rows[k].index : k \in DOMAIN df.rows}

\* the frame's rows are rows of ents_df, each once, in ents_df's order
OrderedSubframe(df) ==
    /\ \A k \in DOMAIN df.rows : df.rows[k] \in Range(ents_df.rows)
    /\ \A k \in DOMAIN df.rows : \A m \in DOMAIN df.rows :
          k < m => df.rows[k].index < df.rows[m].index

\* C8: the Question 3 selection keeps a row of the entity table if and only if
\* its label is PROBLEM and (is_family is True or section_title is
\* "family_history"); a row with both is kept once; kept rows keep their order.
C8_FamilyHistory ==
    pc = "q3_family" =>
        /\ IndexSet(fh) =
              {r.index : r \in {x \in Range(ents_df.rows) :
                    /\ x.d.label = "PROBLEM"
                    /\ (x.d.is_family = TRUE \/ x.d.section_title = "family_history")}}
        /\ OrderedSubframe(fh)

C8_Witness ==
    /\ pc = "q3_family"
    /\ Len(fh.rows) >= 2
    /\ Len(fh.rows) < Len(ents_df.rows)
    /\ fh.rows[2].index > fh.rows[1].index + 1
    /\ \E k \in DOMAIN fh.rows :
          fh.rows[k].d.is_family = TRUE /\ fh.rows[k].d.section_title = "family_history"
    /\ \E k \in DOMAIN fh.rows :
          fh.rows[k].d.is_family = FALSE /\ fh.rows[k].d.section_title = "family_history"
    /\ \E x \in Range(ents_df.rows) :
          x.d.label # "PROBLEM" /\ x.d.is_family = TRUE

CountsOf(res, values, n) ==
    /\ {res[k].value : k \in DOMAIN res} = values
    /\ Len(res) = Cardinality(values)
    /\ SumSeq([k \in DOMAIN res |-> res[k].count]) = n
    /\ \A k \in DOMAIN res : k < Len(res) => res[k].count >= res[k + 1].count

\* top is the first HeadN entries of res, none left out counting more than one kept
TopOf(top, res) ==
    /\ Len(top) <= HeadN
    /\ Len(top) = Min(HeadN, Len(res))
    /\ \A k \in DOMAIN top : top[k] = res[k]
    /\ \A m \in DOMAIN res : \A k \in DOMAIN top : m > Len(top) => res[m].count <= top[k].count

PmhRows == {x \in Range(ents_df.rows) :
               x.d.label = "PROBLEM" /\ x.d.section_title = "past_medical_history"}

FhRows == {x \in Range(ents_df.rows) :
              /\ x.d.label = "PROBLEM"
              /\ (x.d.is_family = TRUE \/ x.d.section_title = "family_history")}

\* C10: label_counts, pmh and fh each hold one entry per distinct value of the
\* counted column, with counts summing to the number of rows counted and in
\* non-increasing order; head(10) is at most 10 entries, the first ones, and no
\* entry left out has a strictly larger count than one kept.
C10_ValueCounts ==
    /\ HasRun("q1_counts") =>
          CountsOf(label_counts, {x.d.label : x \in Range(ents_df.rows)}, Len(ents_df.rows))
    /\ HasRun("q1_head") => TopOf(label_top, label_counts)
    /\ HasRun("q2_counts") =>
          CountsOf(pmh, {x.d.text : x \in PmhRows}, Cardinality(PmhRows))
    /\ HasRun("q2_head") => TopOf(pmh_top, pmh)
    /\ HasRun("q3_counts") =>
          CountsOf(fh, {x.d.text : x \in FhRows}, Cardinality(FhRows))
    /\ HasRun("q3_head") => TopOf(fh_top, fh)

C10_Witness ==
    /\ pc = "q3_head"
    /\ Len(fh) > HeadN
    /\ Len(fh_top) = HeadN
    /\ fh[1].count > fh[Len(fh)].count
    /\ fh[HeadN].count = fh[HeadN + 1].count
    /\ Len(label_counts) = 1

\* --------------------------------------------------- properties of SpecNLP
\* position of a component in the list of finished steps, 0 when it has not run
PosIn(seq, name) ==
    IF name \in Range(seq) THEN CHOOSE i \in DOMAIN seq : seq[i] = name ELSE 0

C4_MedspacyDefault ==
    nlp.model = "default" =>
        /\ nlp.pipe_names = <<"tagger", "parser", "target_matcher", "sectionizer",
                              "context", "postprocessor">>
        /\ "ner" \notin Range(nlp.pipe_names)
        /\ "ner" \notin Range(ran)
        /\ ("sectionizer" \in Range(ran) => "target_matcher" \in Range(ran))
        /\ ("context" \in Range(ran) => "target_matcher" \in Range(ran))
        /\ ("postprocessor" \in Range(ran) =>
              /\ ran[Len(ran)] = "postprocessor"
              /\ Range(nlp.pipe_names) \subseteq Range(ran))
        /\ (busy = "returned" => "postprocessor" \in Range(ran))
        /\ Cardinality(Range(ran)) = Len(ran)

C4_Witness ==
    /\ nlp.model = "default"
    /\ busy = "returned"
    /\ Len(ran) = 7
    /\ doc.ents # <<>>

====
